---- MODULE Spec2Model ----
(***************************************************************************)
(* A model of the EPEX market-data collector (src/main.py): the time-axis  *)
(* builders, the two fetch-and-normalise functions, and the scan loops of  *)
(* the __main__ block that write one CSV per market area and modality.     *)
(*                                                                         *)
(* Time.  A naive (wall-clock) timestamp is the number of minutes since    *)
(* 00:00 of calendar day 0, so day D starts at D * MinutesPerDay.  An      *)
(* instant (a tz-aware pd.Timestamp) is the number of minutes on the       *)
(* absolute time line, which coincides with the wall clock while winter    *)
(* time is in force.                                                       *)
(***************************************************************************)
EXTENDS Integers, Sequences, FiniteSets, TLC

VARIABLES
    now,        \* instant of the running process's clock (datetime.today())
    runs,       \* number of processes started so far
    pc,         \* "idle" | "fetch" | "assemble" | "done" | "crashed"
    err,        \* the uncaught exception that ended the process, or "none"
    call,       \* index into Calls: which collect_* call of __main__ runs
    ai,         \* index into the market_area list of that call
    dates,      \* the instants of pd.date_range(start_date, end_date)
    di,         \* index into dates of the next date to fetch
    df,         \* the rows accumulated for the current pair (pd.concat)
    frames,     \* history: the frame each fetched date of the pair returned
    files,      \* the file system under ./data: file name -> rows written
    dirs,       \* the directories existing under ./data
    log,        \* the lines printed by the current process
    anomalies,  \* number of site or file-system anomalies met so far
    pairEmpty,  \* the site holds no data at all for the current pair
    inp,        \* input of a single fetch_*_data call (function-level runs)
    out         \* its result

vars == <<now, runs, pc, err, call, ai, dates, di, df, frames, files, dirs,
          log, anomalies, pairEmpty, inp, out>>

loopVars == <<now, runs, pc, err, call, ai, dates, di, df, frames, files,
              dirs, log, anomalies, pairEmpty>>

-----------------------------------------------------------------------------
(* Bounds of the model *)

\* market areas modelled per collect_* call (the code lists 19 and 20)
NumAreas == 2
\* processes started (the script is re-run by a scheduler)
MaxRuns == 2
\* site or file-system anomalies over a whole behaviour
MaxAnomalies == 1
\* largest table length given to a single fetch_*_data call
MaxRows == 175

-----------------------------------------------------------------------------
(* Calendar and clock: naive timestamps and Europe/Brussels instants *)

MinutesPerDay == 24 * 60

\* the 23-hour day of the model calendar (02:00 CET -> 03:00 CEST)
SpringForwardDay == 10
\* the 25-hour day of the model calendar (03:00 CEST -> 02:00 CET)
FallBackDay == 20

\* UTC offset beyond winter time that is in force at instant a
DstOffset(a) ==
    IF a >= SpringForwardDay * MinutesPerDay + 120
       /\ a < FallBackDay * MinutesPerDay + 120
    THEN 60 ELSE 0

\* tz-aware instant -> naive wall clock (Timestamp.tz_localize(None))
Wall(a) == a + DstOffset(a)

\* naive wall clock -> the instants that show it (none in the skipped hour,
\* two in the repeated hour)
Instants(w) == {a \in {w, w - 60} : Wall(a) = w}

\* tz_localize(tz) of a wall-clock time that exists exactly once
Localize(w) == CHOOSE a \in Instants(w) : TRUE

\* strftime("%Y-%m-%d") of a tz-aware instant: its calendar day
DateStrAware(a) == Wall(a) \div MinutesPerDay

\* pd.to_datetime(f"{date_str} {hour}:{minute}:00"): a naive timestamp
ToDatetime(date_str, hour, minute) ==
    date_str * MinutesPerDay + hour * 60 + minute

-----------------------------------------------------------------------------
(* get_time_axis_hour / get_time_axis_15min / get_time_axis_30min *)

\* the 24 labels "00 - 01" .. "23 - 24", each as <<first hour, second hour>>
index_hours == [i \in 1..24 |-> <<i - 1, i>>]

\* the hourly axis, from 00:00, or from 12:00 when start_hour = 12
get_time_axis_hour(date_str, start_hour) ==
    LET labels == IF start_hour = 12
                  THEN SubSeq(index_hours, (Len(index_hours) \div 2) + 1,
                              Len(index_hours))
                  ELSE index_hours
    IN  [i \in 1..Len(labels) |-> ToDatetime(date_str, labels[i][1], 0)]

\* f"{hour:02}:{minute:02}" for hour in range(24) for minute in range(0,60,15)
index_15min_intervals ==
    [i \in 1..96 |-> <<(i - 1) \div 4, ((i - 1) % 4) * 15>>]

get_time_axis_15min(date_str) ==
    [i \in 1..Len(index_15min_intervals) |->
        ToDatetime(date_str, index_15min_intervals[i][1],
                   index_15min_intervals[i][2])]

\* the key of sorted(): (hour, minute) compared lexicographically
IntervalBefore(x, y) == x[1] < y[1] \/ (x[1] = y[1] /\ x[2] < y[2])

\* index_intervals without the sort: the labels in generation order
index_intervals_unsorted ==
    [i \in 1..24 |-> <<i - 1, 0>>] \o [i \in 1..24 |-> <<i - 1, 30>>]

\* all ":00" labels, then all ":30" labels, then sorted by (hour, minute)
index_intervals ==
    SortSeq([i \in 1..24 |-> <<i - 1, 0>>] \o [i \in 1..24 |-> <<i - 1, 30>>],
            IntervalBefore)

get_time_axis_30min(date_str) ==
    [i \in 1..Len(index_intervals) |->
        ToDatetime(date_str, index_intervals[i][1], index_intervals[i][2])]

-----------------------------------------------------------------------------
(* Data frames: a frame is a sequence of rows *)

\* data_frame.iloc[::k]: rows at positions 0, k, 2k, ...
Stride(rows, k) ==
    [j \in 1..((Len(rows) + k - 1) \div k) |-> rows[(j - 1) * k + 1]]

\* data_frame[:m] and .iloc[:m]: the first m rows
Truncate(rows, m) == SubSeq(rows, 1, IF Len(rows) < m THEN Len(rows) ELSE m)

\* the result of a fetch_*_data call
Frame(rows, msgs) == [ok |-> TRUE, error |-> "none", rows |-> rows, msgs |-> msgs]
Raise(e, msgs) == [ok |-> FALSE, error |-> e, rows |-> <<>>, msgs |-> msgs]

\* data_frame_lim.index = axis; reset_index().rename(index -> date):
\* pandas refuses an index whose length differs from the frame's
SetIndex(rows, axis, msgs) ==
    IF Len(rows) # Len(axis)
    THEN Raise("LengthMismatch", msgs)
    ELSE Frame([i \in 1..Len(rows) |->
                  [date |-> axis[i], src |-> rows[i].src, url |-> rows[i].url,
                   vals |-> rows[i].vals]], msgs)

-----------------------------------------------------------------------------
(* Cell text and numeric coercion (fetch_auction_data, lines 184-193).     *)
(* A text is a sequence of one-character strings.                          *)

DigitChars == <<"0", "1", "2", "3", "4", "5", "6", "7", "8", "9">>
IsDigit(c) == \E i \in 1..Len(DigitChars) : DigitChars[i] = c
DigitVal(c) == (CHOOSE i \in 1..Len(DigitChars) : DigitChars[i] = c) - 1

\* the value of a digit string read in base ten (0 for the empty string)
RECURSIVE DigitsToInt(_)
DigitsToInt(s) ==
    IF s = <<>> THEN 0
    ELSE 10 * DigitsToInt(SubSeq(s, 1, Len(s) - 1)) + DigitVal(s[Len(s)])

\* str.strip(): leading and trailing blanks removed
RECURSIVE StripLeft(_)
StripLeft(s) ==
    IF s # <<>> /\ s[1] = " " THEN StripLeft(Tail(s)) ELSE s
RECURSIVE StripRight(_)
StripRight(s) ==
    IF s # <<>> /\ s[Len(s)] = " "
    THEN StripRight(SubSeq(s, 1, Len(s) - 1)) ELSE s
Strip(s) == StripRight(StripLeft(s))

\* Series.str.replace(',', '')
NotComma(c) == c # ","
RemoveCommas(s) == SelectSeq(s, NotComma)

\* A float is written <<num, scale>>, standing for num / 10^scale.
Float(num, scale) == [ok |-> TRUE, val |-> <<num, scale>>]
\* the not-a-number value, and the failure of float()
NaNValue == <<0, -1>>
NotANumber == [ok |-> TRUE, val |-> NaNValue]
CannotConvert == [ok |-> FALSE, val |-> NaNValue]

\* float(text) on an unsigned decimal literal: digits, at most one dot, at
\* least one digit; anything else (the empty string included) is a ValueError
ParseUnsigned(s, sign) ==
    LET dots == {i \in 1..Len(s) : s[i] = "."}
        dot == IF dots = {} THEN Len(s) + 1 ELSE CHOOSE i \in dots : TRUE
        ip == SubSeq(s, 1, dot - 1)
        fp == SubSeq(s, dot + 1, Len(s))
        allDigits == \A i \in 1..Len(s) : i = dot \/ IsDigit(s[i])
    IN  IF Cardinality(dots) <= 1 /\ allDigits /\ Len(ip) + Len(fp) >= 1
        THEN Float(sign * DigitsToInt(ip \o fp), Len(fp))
        ELSE CannotConvert

\* astype(float) of one cell: Python's float() of the text
AsFloat(s) ==
    IF s # <<>> /\ s[1] = "-" THEN ParseUnsigned(Tail(s), -1)
    ELSE ParseUnsigned(s, 1)

\* data_frame[col].str.replace(',', '').astype(float), for one cell
CoerceCell(text) == AsFloat(RemoveCommas(text))

-----------------------------------------------------------------------------
(* The site.  A page is what one URL returns: the HTTP status, whether a   *)
(* table is present, its number of rows, and the cell texts.  Every cell   *)
(* holds DefaultCell except the first cell of the first row, which holds   *)
(* page.cell; the functions below read all cells alike.                    *)

DefaultCell == <<"1", "2">>

CellText(page, r, c) == IF r = 0 /\ c = 1 THEN page.cell ELSE DefaultCell

Page(status, table, n, cell, url) ==
    [status |-> status, table |-> table, n |-> n, cell |-> cell, url |-> url]

\* pd.read_html(str(table))[0]: the table's rows, in page order
SpotTable(page) ==
    [r \in 1..page.n |-> [src |-> r - 1, url |-> page.url, vals |-> <<>>]]

\* rows of <tr class="child">; each cell is ele.text.strip()
AuctionData(page) ==
    [r \in 1..page.n |->
        [src |-> r - 1, url |-> page.url,
         vals |-> [c \in 1..4 |-> Strip(CellText(page, r - 1, c))]]]

-----------------------------------------------------------------------------
(* fetch_spot_data *)

\* SpotSelect keeping 25 strided rows of a long clock-change day and
\* dropping the first instead of the last
SpotSelectDropFirst(data_frame) ==
    LET n == Len(data_frame) IN
    CASE n = 168 -> Frame(Stride(data_frame, 7), {})
      [] n = 72  -> Frame(Stride(data_frame, 3), {})
      [] n = 74  -> Frame(Tail(Truncate(Stride(data_frame, 3), 25)), {"WARNING"})
      [] n = 24  -> Frame(data_frame, {})
      [] n = 172 \/ n = 174
                 -> Frame(Tail(Truncate(Stride(data_frame, 7), 25)), {"WARNING"})
      [] OTHER   -> Raise("UnsupportedShape", {})

\* lines 69-91: the rows kept for a table of each supported length
SpotSelect(data_frame) ==
    LET n == Len(data_frame) IN
    CASE n = 168 -> Frame(Stride(data_frame, 7), {})
      [] n = 72  -> Frame(Stride(data_frame, 3), {})
      [] n = 74  -> Frame(Truncate(Stride(data_frame, 3), 24), {"WARNING"})
      [] n = 24  -> Frame(data_frame, {})
      [] n = 172 \/ n = 174
                 -> Frame(Truncate(Stride(data_frame, 7), 24), {"WARNING"})
      [] OTHER   -> Raise("UnsupportedShape", {})

fetch_spot_data(date_str, page) ==
    IF page.status # "ok" THEN Raise("HTTPError", {})          \* line 50
    ELSE IF ~page.table THEN Frame(<<>>, {"DATA NOT FOUND"})   \* lines 60-62
    ELSE LET lim == SpotSelect(SpotTable(page)) IN
         IF ~lim.ok THEN lim
         ELSE SetIndex(lim.rows, get_time_axis_hour(date_str, 0), lim.msgs)

-----------------------------------------------------------------------------
(* fetch_auction_data *)

\* lines 192-193: every column of every row through CoerceCell; one cell
\* that float() refuses raises out of the whole function
AuctionCoerce(data) ==
    LET num == [r \in 1..Len(data) |->
                  [c \in 1..4 |-> CoerceCell(data[r].vals[c])]]
    IN  IF \E r \in 1..Len(data) : \E c \in 1..4 : ~num[r][c].ok
        THEN Raise("NumberFormat", {})
        ELSE Frame([r \in 1..Len(data) |->
                      [src |-> data[r].src, url |-> data[r].url,
                       vals |-> [c \in 1..4 |-> num[r][c].val]]], {})

\* AuctionSelect taking the continuous table's 168 rows for a quarter-hourly
\* day as well
AuctionSelectLenient(data_frame, delivery_date_str) ==
    LET n == Len(data_frame) IN
    CASE n = 0   -> Frame(<<>>, {"DATA NOT FOUND"})
      [] n = 12  -> SetIndex(data_frame,
                             get_time_axis_hour(delivery_date_str, 12), {})
      [] n = 24  -> SetIndex(data_frame,
                             get_time_axis_hour(delivery_date_str, 0), {})
      [] n = 48 \/ n = 50
                 -> SetIndex(Truncate(data_frame, 48),
                             get_time_axis_30min(delivery_date_str), {})
      [] n = 96 \/ n = 100 \/ n = 168
                 -> SetIndex(Truncate(data_frame, 96),
                             get_time_axis_15min(delivery_date_str), {})
      [] OTHER   -> Raise("UnsupportedShape", {})

\* lines 196-230: the rows kept and the axis attached, by table length
AuctionSelect(data_frame, delivery_date_str) ==
    LET n == Len(data_frame) IN
    CASE n = 0   -> Frame(<<>>, {"DATA NOT FOUND"})
      [] n = 12  -> SetIndex(data_frame,
                             get_time_axis_hour(delivery_date_str, 12), {})
      [] n = 24  -> SetIndex(data_frame,
                             get_time_axis_hour(delivery_date_str, 0), {})
      [] n = 48  -> SetIndex(data_frame,
                             get_time_axis_30min(delivery_date_str), {})
      [] n = 50  -> SetIndex(Truncate(data_frame, 48),
                             get_time_axis_30min(delivery_date_str),
                             {"WARNING"})
      [] n = 96  -> SetIndex(data_frame,
                             get_time_axis_15min(delivery_date_str), {})
      [] n = 100 -> SetIndex(Truncate(data_frame, 96),
                             get_time_axis_15min(delivery_date_str),
                             {"WARNING"})
      [] OTHER   -> Raise("UnsupportedShape", {})

fetch_auction_data(delivery_date_str, page) ==
    IF page.status # "ok" THEN Raise("HTTPError", {})          \* line 172
    ELSE LET num == AuctionCoerce(AuctionData(page)) IN
         IF ~num.ok THEN num
         ELSE AuctionSelect(num.rows, delivery_date_str)

-----------------------------------------------------------------------------
(* The scan loops: collect_continuous_market_data,                         *)
(* collect_auction_market_data and the __main__ block                      *)

\* the market_area list of collect_continuous_market_data (lines 259-262)
ContinuousAreas ==
    <<"AT", "BE", "CH", "DE", "DK1", "DK2", "FI", "FR", "NL", "NO1", "NO2",
      "NO3", "NO4", "NO5", "PL", "SE1", "SE2", "SE3", "SE4">>
\* the market_area list of collect_auction_market_data (line 293)
AuctionAreas ==
    <<"AT", "BE", "CH", "DE-LU", "DK1", "DK2", "FI", "FR", "GB", "NL", "NO1",
      "NO2", "NO3", "NO4", "NO5", "PL", "SE1", "SE2", "SE3", "SE4">>

\* the five collect_* calls of the __main__ block, in order (lines 338-344);
\* label is the directory name of the modality
Calls ==
    << [kind |-> "continuous", sub_modality |-> "", auction |-> "",
        label |-> "continuous"],
       [kind |-> "auction", sub_modality |-> "DayAhead", auction |-> "MRC",
        label |-> "DayAhead_MRC"],
       [kind |-> "auction", sub_modality |-> "Intraday", auction |-> "IDA1",
        label |-> "Intraday_IDA1"],
       [kind |-> "auction", sub_modality |-> "Intraday", auction |-> "IDA2",
        label |-> "Intraday_IDA2"],
       [kind |-> "auction", sub_modality |-> "Intraday", auction |-> "IDA3",
        label |-> "Intraday_IDA3"] >>

\* the areas a call scans: the first NumAreas of its list
AreasOf(c) ==
    SubSeq(IF Calls[c].kind = "continuous" THEN ContinuousAreas
           ELSE AuctionAreas, 1, NumAreas)

\* start_date = end_date - timedelta(days=4): four times 24 hours earlier
WindowDays == 4

\* pd.date_range(start=start_date, end=end_date): freq "D" steps by calendar
\* day on the wall clock of the tz-aware endpoints, both ends included, and
\* each date is localised again
DateRange(start, end) ==
    LET ws == Wall(start)
        we == Wall(end)
        k == IF we < ws THEN 0 ELSE (we - ws) \div MinutesPerDay + 1
    IN  [i \in 1..k |-> Localize(ws + (i - 1) * MinutesPerDay)]

\* the window of a process whose clock shows t
Window(t) == DateRange(t - WindowDays * MinutesPerDay, t)

\* delivery date of trading instant date (lines 299-302): Timestamp +
\* timedelta(days=1) adds 24 hours of absolute time.  (The ValueError for any
\* other sub_modality cannot arise: __main__ passes these two only.)
DeliveryDate(sub_modality, date) ==
    IF sub_modality = "DayAhead" THEN date + MinutesPerDay ELSE date

\* the date column of a frame
DateColumn(rows) == [i \in 1..Len(rows) |-> rows[i].date]

\* DatetimeIndex.inferred_freq: None for fewer than three stamps, for stamps
\* that are not increasing or not unique, and for unequal steps; else the one
\* step, named in hours when it is a whole number of them, in minutes if not
InferredFreq(stamps) ==
    LET n == Len(stamps)
        deltas == {stamps[i + 1] - stamps[i] : i \in 1..(n - 1)}
    IN  IF n < 3 \/ Cardinality(deltas) # 1 THEN "None"
        ELSE LET d == CHOOSE x \in deltas : TRUE IN
             IF d <= 0 THEN "None"
             ELSE IF d % 60 = 0
                  THEN (IF d = 60 THEN "h" ELSE ToString(d \div 60) \o "h")
                  ELSE (IF d = 1 THEN "min" ELSE ToString(d) \o "min")

\* df.sort_values(by='date'): ascending by timestamp (the order it leaves
\* among equal timestamps is not read by any property below)
DateBefore(a, b) == a.date < b.date
SortValues(rows) == SortSeq(rows, DateBefore)

\* the output file of a pair: ./data/{area}/{label}/{today}_{frequency}_table.csv
FileName(area, label, today, frequency) ==
    [area |-> area, label |-> label, day |-> today, freq |-> frequency]

Line(msg, c, a) == [msg |-> msg, label |-> Calls[c].label, area |-> AreasOf(c)[a]]

\* what the site may answer for one URL.  The ordinary answer is a full-day
\* table (168 rows continuous, 24 rows auction); the others are anomalies.
NormalPage(c, url) ==
    Page("ok", TRUE, IF Calls[c].kind = "continuous" THEN 168 ELSE 24,
         DefaultCell, url)
EmptyPage(c, url) ==
    Page("ok", FALSE, 0, DefaultCell, url)
OddPages(c, url) ==
    IF Calls[c].kind = "continuous"
    THEN { Page("http_error", TRUE, 0, DefaultCell, url),
           EmptyPage(c, url),
           Page("ok", TRUE, 74, DefaultCell, url),
           Page("ok", TRUE, 50, DefaultCell, url) }
    ELSE { Page("http_error", TRUE, 0, DefaultCell, url),
           EmptyPage(c, url),
           Page("ok", TRUE, 12, DefaultCell, url),
           Page("ok", TRUE, 13, DefaultCell, url),
           Page("ok", TRUE, 24, <<>>, url) }

\* the uncaught exception e ends the process
Crash(e) ==
    /\ pc' = "crashed"
    /\ err' = e

\* EnterPair without the fresh df: the buffer of the pair before is kept
EnterPairKeepBuffer(c, a) ==
    /\ call' = c
    /\ ai' = a
    /\ di' = 1
    /\ df' = df
    /\ frames' = <<>>
    /\ pc' = IF Len(dates') = 0 THEN "assemble" ELSE "fetch"
    /\ pairEmpty' = FALSE /\ anomalies' = anomalies

\* the head of a market_area iteration: df = pd.DataFrame() (lines 263, 295);
\* whether the site has any data for the pair is the site's choice
EnterPair(c, a) ==
    /\ call' = c
    /\ ai' = a
    /\ di' = 1
    /\ df' = <<>>
    /\ frames' = <<>>
    /\ pc' = IF Len(dates') = 0 THEN "assemble" ELSE "fetch"
    /\ \/ pairEmpty' = FALSE /\ anomalies' = anomalies
       \/ /\ anomalies < MaxAnomalies
          /\ pairEmpty' = TRUE /\ anomalies' = anomalies + 1

\* after a pair: the next market area, the next collect_* call, or the end
LeavePair ==
    IF ai < Len(AreasOf(call)) THEN EnterPair(call, ai + 1)
    ELSE IF call < Len(Calls) THEN EnterPair(call + 1, 1)
    ELSE /\ pc' = "done"
         /\ UNCHANGED <<call, ai, di, df, frames, pairEmpty, anomalies>>

\* python main.py: end_date is the clock, start_date four days before it.
\* A process reads the clock once: its later datetime.today() calls (the
\* file names) are taken to fall on the same calendar day.  A later process
\* starts at the same time of day, the same day or the next.
StartRun ==
    /\ pc \in {"idle", "done", "crashed"}
    /\ runs < MaxRuns
    /\ runs' = runs + 1
    /\ \E wait \in {0, MinutesPerDay} :
          now' = IF runs = 0 THEN now ELSE now + wait
    /\ dates' = Window(now')
    /\ err' = "none"
    /\ log' = {}
    /\ EnterPair(1, 1)
    /\ UNCHANGED <<files, dirs, inp, out>>

\* LoopBody leaving the date loop one date early: the last date of the
\* window is never fetched
LoopBodyEarlyExit(page) ==
    LET c == Calls[call]
        date == dates[di]
        date_str == IF c.kind = "continuous" THEN DateStrAware(date)
                    ELSE DateStrAware(DeliveryDate(c.sub_modality, date))
    IN  \E df_i \in { IF c.kind = "continuous"
                      THEN fetch_spot_data(date_str, page)
                      ELSE fetch_auction_data(date_str, page) } :
        IF ~df_i.ok
        THEN /\ Crash(df_i.error)
             /\ UNCHANGED <<di, df, frames, log>>
        ELSE /\ df' = df \o df_i.rows
             /\ frames' = Append(frames, [date_str |-> date_str,
                                           rows |-> df_i.rows])
             /\ log' = log \cup {Line(m, call, ai) : m \in df_i.msgs}
             /\ di' = di + 1
             /\ pc' = IF di >= Len(dates) - 1 THEN "assemble" ELSE "fetch"
             /\ err' = err

\* one iteration of the date loop (lines 265-273 and 297-311) with the page
\* the site serves for its URL
LoopBody(page) ==
    LET c == Calls[call]
        date == dates[di]
        date_str == IF c.kind = "continuous" THEN DateStrAware(date)
                    ELSE DateStrAware(DeliveryDate(c.sub_modality, date))
    IN  \E df_i \in { IF c.kind = "continuous"
                      THEN fetch_spot_data(date_str, page)
                      ELSE fetch_auction_data(date_str, page) } :
        IF ~df_i.ok
        THEN /\ Crash(df_i.error)
             /\ UNCHANGED <<di, df, frames, log>>
        ELSE /\ df' = df \o df_i.rows
             /\ frames' = Append(frames, [date_str |-> date_str,
                                           rows |-> df_i.rows])
             /\ log' = log \cup {Line(m, call, ai) : m \in df_i.msgs}
             /\ di' = di + 1
             /\ pc' = IF di = Len(dates) THEN "assemble" ELSE "fetch"
             /\ err' = err

Url(c, a, date) ==
    AreasOf(c)[a] \o "/" \o Calls[c].label \o "/"
    \o ToString(DateStrAware(date)) \o "/"
    \o ToString(DateStrAware(DeliveryDate(Calls[c].sub_modality, date)))
    \o "#" \o ToString(runs)

FetchDate ==
    /\ pc = "fetch"
    /\ LET url == Url(call, ai, dates[di]) IN
       \/ /\ ~pairEmpty
          /\ LoopBody(NormalPage(call, url))
          /\ UNCHANGED anomalies
       \/ /\ pairEmpty
          /\ LoopBody(EmptyPage(call, url))
          /\ UNCHANGED anomalies
       \/ /\ ~pairEmpty /\ anomalies < MaxAnomalies
          /\ anomalies' = anomalies + 1
          /\ \E page \in OddPages(call, url) : LoopBody(page)
    /\ UNCHANGED <<now, runs, call, ai, dates, files, dirs, pairEmpty, inp, out>>

\* os.mkdir of the two directories when missing, then to_csv (lines 277-288,
\* 316-326); fails says which step the file system refuses, if any
SaveTable(df_sorted, frequency, fails) ==
    LET area == AreasOf(call)[ai]
        label == Calls[call].label
        fname == FileName(area, label, DateStrAware(now), frequency)
    IN  IF fails = "mkdir_area"
        THEN /\ Crash("OSError")
             /\ UNCHANGED <<dirs, files, log, call, ai, di, df, frames,
                            pairEmpty>>
        ELSE IF fails = "mkdir_label"
        THEN /\ Crash("OSError")
             /\ dirs' = dirs \cup {<<area>>}
             /\ UNCHANGED <<files, log, call, ai, di, df, frames, pairEmpty>>
        ELSE /\ dirs' = dirs \cup {<<area>>, <<area, label>>}
             /\ log' = log \cup {Line("Saving", call, ai)}
             /\ IF fails = "to_csv"
                THEN /\ Crash("OSError")
                     /\ UNCHANGED <<files, call, ai, di, df, frames, pairEmpty>>
                ELSE /\ files' = (fname :> df_sorted) @@ files
                     /\ err' = err
                     /\ LeavePair

\* the steps of a save that touch the file system: a mkdir is only made for
\* a directory that is missing
SaveSteps ==
    LET area == AreasOf(call)[ai]
        label == Calls[call].label
    IN  (IF <<area>> \in dirs THEN {} ELSE {"mkdir_area"})
        \cup (IF <<area, label>> \in dirs THEN {} ELSE {"mkdir_label"})
        \cup {"to_csv"}

\* sort_values, inferred_freq and the save; the file system's part in it:
\* every step works, or (an anomaly) one of them raises OSError
SaveOutcome ==
    \E df_sorted \in {SortValues(df)} :
    \E frequency \in {InferredFreq(DateColumn(df))} :
       \/ /\ SaveTable(df_sorted, frequency, "none")
       \/ /\ anomalies < MaxAnomalies
          /\ \E f \in SaveSteps :
               /\ SaveTable(df_sorted, frequency, f)
               /\ anomalies' = anomalies + 1

\* lines 275-288: sort, make the directories, name and write the file; an
\* empty df has no 'date' column and sort_values raises KeyError
AssembleContinuous ==
    /\ UNCHANGED <<now, runs, dates, inp, out>>
    /\ pc = "assemble"
    /\ Calls[call].kind = "continuous"
    /\ IF df = <<>>
       THEN /\ Crash("KeyError")
            /\ UNCHANGED <<dirs, files, log, call, ai, di, df, frames,
                           pairEmpty, anomalies>>
       ELSE SaveOutcome

\* lines 313-330: the same under "if not df.empty", else a printed line
AssembleAuction ==
    /\ UNCHANGED <<now, runs, dates, inp, out>>
    /\ pc = "assemble"
    /\ Calls[call].kind = "auction"
    /\ IF df # <<>>
       THEN SaveOutcome
       ELSE /\ log' = log \cup {Line("NO AUCTION DATA", call, ai)}
            /\ err' = err
            /\ LeavePair
            /\ UNCHANGED <<dirs, files>>

\* clocks of the first process: noon of an ordinary week, and 23:30 on the
\* day after the clocks went back
InitialClocks ==
    { Localize(5 * MinutesPerDay + 12 * 60),
      Localize((FallBackDay + 1) * MinutesPerDay + 23 * 60 + 30) }

Init ==
    /\ now \in InitialClocks
    /\ runs = 0 /\ pc = "idle" /\ err = "none"
    /\ call = 1 /\ ai = 1 /\ dates = <<>> /\ di = 1
    /\ df = <<>> /\ frames = <<>> /\ files = <<>> /\ dirs = {}
    /\ log = {} /\ anomalies = 0 /\ pairEmpty = FALSE
    /\ inp = [fn |-> "none"]
    /\ out = [ok |-> FALSE, error |-> "pending", rows |-> <<>>, msgs |-> {}]

Next == StartRun \/ FetchDate \/ AssembleContinuous \/ AssembleAuction

Spec == Init /\ [][Next]_vars

-----------------------------------------------------------------------------
(* Function-level runs: one call of fetch_spot_data or fetch_auction_data  *)
(* on one page, the page drawn from a bounded family.                      *)

\* texts tried in the distinguished cell
CommaNumber == <<"2", ",", "9", "1", "4", ".", "6">>
CellTexts ==
    { DefaultCell, CommaNumber, <<>>, <<" ">>, <<"a", "b", "c">>,
      <<"-", "5", ".", "0", "2">>, <<" ", "7", " ">>, <<"2", " ", "9">>,
      <<"1", ".", "2", ".", "3">>, <<".">> }

\* delivery dates tried: an ordinary day and the two clock-change days
FetchDates == {3, SpringForwardDay, FallBackDay}

Pending == [ok |-> FALSE, error |-> "pending", rows |-> <<>>, msgs |-> {}]

FetchInputs ==
    { [fn |-> fn, date_str |-> d, page |-> Page("ok", TRUE, n, c, <<fn, d>>)] :
        fn \in {"spot"}, d \in FetchDates, n \in 0..MaxRows, c \in {DefaultCell} }
    \cup
    { [fn |-> fn, date_str |-> d, page |-> Page("ok", TRUE, n, c, <<fn, d>>)] :
        fn \in {"auction"}, d \in FetchDates, n \in 0..MaxRows, c \in CellTexts }
    \cup
    { [fn |-> fn, date_str |-> d, page |-> Page(st, tb, 24, DefaultCell, <<fn, d>>)] :
        fn \in {"spot", "auction"}, d \in FetchDates,
        st \in {"ok", "http_error"}, tb \in BOOLEAN }

LoopIdle ==
    /\ now = 0 /\ runs = 0 /\ pc = "idle" /\ err = "none"
    /\ call = 1 /\ ai = 1 /\ dates = <<>> /\ di = 1
    /\ df = <<>> /\ frames = <<>> /\ files = <<>> /\ dirs = {}
    /\ log = {} /\ anomalies = 0 /\ pairEmpty = FALSE

InitFetch ==
    /\ LoopIdle
    /\ inp \in FetchInputs
    /\ out = Pending

CallSpot ==
    /\ out = Pending /\ inp.fn = "spot"
    /\ out' = fetch_spot_data(inp.date_str, inp.page)
    /\ UNCHANGED <<inp, loopVars>>

CallAuction ==
    /\ out = Pending /\ inp.fn = "auction"
    /\ out' = fetch_auction_data(inp.date_str, inp.page)
    /\ UNCHANGED <<inp, loopVars>>

NextFetch == CallSpot \/ CallAuction

SpecFetch == InitFetch /\ [][NextFetch]_vars

-----------------------------------------------------------------------------
(* Properties of one fetch_*_data call *)

SpotCounts == {24, 72, 74, 168, 172, 174}
AuctionCounts == {12, 24, 48, 50, 96, 100}

\* a call has returned or raised
Returned == out # Pending
\* the page was served, with a table on it
Served == inp.page.status = "ok" /\ inp.page.table
\* its distinguished cell is text float() accepts once the commas are gone
CellIsNumeric == CoerceCell(Strip(inp.page.cell)).ok
OnSpot == Returned /\ inp.fn = "spot" /\ Served
OnAuction == Returned /\ inp.fn = "auction" /\ inp.page.status = "ok"

\* C5: shape classification succeeds exactly on the documented row counts of
\* the table's own modality; every other positive row count raises the
\* unsupported-shape error and yields no rows (an auction table reaches the
\* classification once its cells are numeric, and yields no rows either way).
C5_ShapeClassification ==
    /\ OnSpot /\ inp.page.n > 0 =>
         /\ out.ok <=> inp.page.n \in SpotCounts
         /\ inp.page.n \notin SpotCounts =>
              out.error = "UnsupportedShape" /\ out.rows = <<>>
    /\ OnAuction /\ inp.page.n > 0 =>
         /\ CellIsNumeric => (out.ok <=> inp.page.n \in AuctionCounts)
         /\ inp.page.n \notin AuctionCounts =>
              /\ ~out.ok /\ out.rows = <<>>
              /\ CellIsNumeric => out.error = "UnsupportedShape"

\* a count of the other modality, and a near miss, have been refused
C5_Witness ==
    \/ OnSpot /\ inp.page.n = 50 /\ out.error = "UnsupportedShape"
    \/ OnAuction /\ inp.page.n = 168 /\ out.error = "UnsupportedShape"

\* the stride the documentation gives for a continuous table of n rows
DocStride(n) == IF n = 24 THEN 1 ELSE IF n \in {72, 74} THEN 3 ELSE 7

DocKept(n) == IF n = 50 THEN 48 ELSE IF n = 100 THEN 96 ELSE n
DocFirst(n) == IF n = 12 THEN 12 * 60 ELSE 0
DocStep(n) == IF n \in {12, 24} THEN 60 ELSE IF n \in {48, 50} THEN 30 ELSE 15

C8_CoercionByContent ==
    OnAuction /\ inp.page.n \in AuctionCounts =>
        /\ inp.page.cell = CommaNumber =>
             out.ok /\ out.rows[1].vals[1] = <<29146, 1>>
        /\ Strip(inp.page.cell) = <<>> =>
             /\ out.ok /\ Len(out.rows) = DocKept(inp.page.n)
             /\ out.rows[1].vals[1] = NaNValue
        /\ inp.page.cell = <<"a", "b", "c">> => ~out.ok

-----------------------------------------------------------------------------
(* Properties of the scan loops *)

\* C1: a failure of one date's fetch, parse or normalisation is caught: the
\* date loop goes on to the next date (so that the pair's file is still
\* written from the dates that succeeded) and the process is not ended.
C1_DateFailureIsCaught ==
    [][pc = "fetch" => pc' \in {"fetch", "assemble"} /\ di' = di + 1]_vars

\* C2: a failure while sorting, naming or writing a non-empty series ends
\* that pair only: the process goes on with the next pair (or finishes after
\* the last one).
C2_SaveFailureEndsPairOnly ==
    [][pc = "assemble" /\ df # <<>> => pc' \in {"fetch", "assemble", "done"}]_vars

\* C3: a pair whose accumulated rows are empty gets no file, the fact is
\* printed and no error is raised, in the continuous scan as in the auction
\* scan.
C3_EmptySeriesIsSkipped ==
    [][pc = "assemble" /\ df = <<>> =>
          /\ pc' \in {"fetch", "assemble", "done"}
          /\ files' = files
          /\ log' # log]_vars

\* C4: at most one file per (market_area, modality_label, capture_date),
\* whatever the frequencies inferred.
C4_OneFilePerPairAndDay ==
    \A f, g \in DOMAIN files :
        f.area = g.area /\ f.label = g.label /\ f.day = g.day => f = g

\* C9: in the rows accumulated for a pair, each date's rows lie within their
\* delivery date, rise by one constant step of 60, 30 or 15 minutes, and no
\* two rows of the series share a timestamp, the delivery dates fetched in one
\* scan being pairwise distinct.
C9_SeriesTimestamps ==
    /\ \A k \in 1..Len(frames) :
         LET r == frames[k].rows
             D == frames[k].date_str
         IN  /\ \A i \in 1..Len(r) :
                   /\ r[i].date >= D * MinutesPerDay
                   /\ r[i].date < (D + 1) * MinutesPerDay
             /\ \E step \in {60, 30, 15} :
                   \A i \in 1..(Len(r) - 1) : r[i + 1].date - r[i].date = step
    /\ \A j, k \in 1..Len(frames) :
         j # k /\ frames[j].rows # <<>> /\ frames[k].rows # <<>>
            => frames[j].date_str # frames[k].date_str
    /\ Cardinality({df[i].date : i \in 1..Len(df)}) = Len(df)

\* the rows a process's clock and position say the current pair fetched
RECURSIVE Concat(_)
Concat(fs) ==
    IF fs = <<>> THEN <<>>
    ELSE Concat(SubSeq(fs, 1, Len(fs) - 1)) \o fs[Len(fs)].rows
RowSet(rows) == {rows[i] : i \in 1..Len(rows)}
RECURSIVE TotalRows(_)
TotalRows(fs) ==
    IF fs = <<>> THEN 0
    ELSE TotalRows(SubSeq(fs, 1, Len(fs) - 1)) + Len(fs[Len(fs)].rows)
PairUrls == {Url(call, ai, dates[k]) : k \in 1..Len(dates)}

\* C10: a file that is written holds exactly the rows the current scan
\* normalised for the current pair, ascending by timestamp: as many rows as
\* the pair's per-date frames have together, the same rows, and none that
\* was fetched for another market area, modality or run.
C10_WrittenSeries ==
    [][files' # files =>
         \E f \in DOMAIN files' :
            /\ f = FileName(AreasOf(call)[ai], Calls[call].label,
                            DateStrAware(now), f.freq)
            /\ \A g \in DOMAIN files : g # f => files'[g] = files[g]
            /\ Len(files'[f]) = TotalRows(frames)
            /\ RowSet(files'[f]) = RowSet(Concat(frames))
            /\ \A i \in 1..(Len(files'[f]) - 1) :
                  files'[f][i].date <= files'[f][i + 1].date
            /\ \A i \in 1..Len(files'[f]) : files'[f][i].url \in PairUrls]_vars

\* a day-ahead file has been written from four full days and a half day
C10_Witness ==
    \E f \in DOMAIN files :
        /\ f.label = "DayAhead_MRC"
        /\ Len(files[f]) = 4 * 24 + 12
        /\ files[f][1].date < files[f][Len(files[f])].date

\* the pair scanned after pair (c, a) in a run, in the order of __main__
NextPair(c, a) ==
    IF a < Len(AreasOf(c)) THEN <<c, a + 1>> ELSE <<c + 1, 1>>
\* the date string a fetch of trading instant date asks for
AskedDate(c, date) ==
    IF Calls[c].kind = "continuous" THEN DateStrAware(date)
    ELSE DateStrAware(DeliveryDate(Calls[c].sub_modality, date))
\* every date of the window has been processed for the current pair
AllDatesDone == di = Len(dates) + 1 /\ Len(frames) = Len(dates)
\* this step names the current pair's file and attempts the write
SavesPair == Line("Saving", call, ai) \in log' /\ Line("Saving", call, ai) \notin log
\* this step wrote the current pair's sorted series
WritesPair ==
    /\ df # <<>>
    /\ SavesPair
    /\ \E f \in DOMAIN files' :
          /\ f.area = AreasOf(call)[ai] /\ f.label = Calls[call].label
          /\ f.day = DateStrAware(now)
          /\ files'[f] = SortValues(df)
\* this step skipped the current pair: no rows, no file, a printed line
SkipsPair ==
    /\ df = <<>>
    /\ files' = files
    /\ Line("NO AUCTION DATA", call, ai) \in log'
    /\ Line("Saving", call, ai) \notin log'

\* C11: within a run the scan is strictly sequential.  The window is fixed
\* and its trading dates ascend day by day; a fetch step handles exactly the
\* next date of the current pair and touches no file; the pair's file is
\* named and written only once every date of the window has been processed,
\* and at most once (a pair still being scanned has not been saved, and only
\* the current pair's lines are printed); the scan moves to another pair
\* only in the step that writes or skips the current one, and then to the
\* pair next in order, starting again at the first date with an empty buffer.
C11_SequentialScan ==
    [][runs' = runs =>
         /\ dates' = dates
         /\ \A i \in 1..(Len(dates) - 1) :
               /\ dates[i] < dates[i + 1]
               /\ DateStrAware(dates[i + 1]) = DateStrAware(dates[i]) + 1
         /\ \A l \in log' \ log :
               l.label = Calls[call].label /\ l.area = AreasOf(call)[ai]
         /\ pc = "fetch" =>
               /\ di \in 1..Len(dates) /\ Len(frames) = di - 1
               /\ files' = files /\ dirs' = dirs
               /\ ~SavesPair
               /\ <<call', ai'>> = <<call, ai>>
               /\ pc' \in {"fetch", "assemble", "crashed"}
               /\ pc' # "crashed" =>
                     /\ di' = di + 1
                     /\ frames' = Append(frames, frames'[di])
                     /\ frames'[di].date_str = AskedDate(call, dates[di])
                     /\ df' = df \o frames'[di].rows
                     /\ pc' = "assemble" <=> di = Len(dates)
         /\ (files' # files \/ SavesPair) => pc = "assemble" /\ AllDatesDone
         /\ pc' \in {"fetch", "assemble"} =>
               Line("Saving", call', ai') \notin log'
         /\ (<<call', ai'>> # <<call, ai>> \/ pc' = "done") =>
               /\ pc = "assemble" /\ AllDatesDone
               /\ WritesPair \/ SkipsPair
         /\ <<call', ai'>> # <<call, ai>> =>
               /\ <<call', ai'>> = NextPair(call, ai)
               /\ di' = 1 /\ df' = <<>> /\ frames' = <<>>
               /\ pc' = "fetch"]_vars

\* the second area of the day-ahead scan is half-way through its window,
\* the first area's file written and the continuous scan behind it
C11_Witness ==
    /\ pc = "fetch" /\ call = 2 /\ ai = 2 /\ di = 3 /\ Len(frames) = 2
    /\ Line("Saving", 2, 1) \in log
    /\ \E f \in DOMAIN files :
          f.area = AreasOf(2)[1] /\ f.label = "DayAhead_MRC"

====
